---- MODULE Spec2Model ----
(***************************************************************************)
(* The download-and-convert pipeline of the playlist downloader:           *)
(* downloadSongs (a p-queue of bounded concurrency over the batch) and     *)
(* downloadSong (connectivity wait, fetch with retry, transcode, cleanup)  *)
(* of the retry variant of the downloader, src/unnamed/part_001, inside the *)
(* run of the command line, src/src/index.ts (validation, playlist         *)
(* metadata, staging directory, download, tagging, archive or move, exit). *)
(*                                                                         *)
(* One step of the model is one turn of the Node event loop: the code that *)
(* runs between two awaits of one job.  execSync blocks the event loop, so *)
(* a fetch attempt and everything that follows it up to the next await is  *)
(* one step.                                                               *)
(***************************************************************************)
EXTENDS Naturals, Integers, Sequences, FiniteSets, TLC

\* ------------------------------------------------------------------ bounds
MaxItems == 3
MaxConcurrency == 2
\* The failed polls of one waitForReconnect call that are told apart.
MaxPolls == 2

\* ------------------------------------------------------- program constants
maxRetries == 4

NETWORK_ERROR_PATTERNS ==
    { "enotfound", "eai_again", "econnreset", "etimedout",
      "network is unreachable", "getaddrinfo enotfound",
      "temporary failure in name resolution", "resolving timed out" }

\* ------------------------------------------------------------ error texts
\* The message of the error execSync throws is any text; the model draws it
\* from two texts, one that holds a network signature and one that holds
\* none.  Fragments(m) is the set of lower-cased signature fragments a text
\* holds (the patterns are tested case-insensitively).
NetworkErrors == { "spawnSync cmd.exe ETIMEDOUT" }
ToolErrors == { "Command failed: py -m yt_dlp" }
FetchErrors == NetworkErrors \cup ToolErrors

Fragments(message) ==
    CASE message = "spawnSync cmd.exe ETIMEDOUT" -> { "etimedout" }
      [] OTHER -> {}

FfmpegError == "ffmpeg exited with code 1"
FsError == "EBUSY: resource busy or locked, unlink"
CallbackError == "onProgress threw"

\* Mutant of isNetworkError: every text is taken for a network error.
isNetworkErrorAlways(message) == message = message

isNetworkError(message) ==
    \E pattern \in NETWORK_ERROR_PATTERNS : pattern \in Fragments(message)

\* ------------------------------------------------------------------ state
VARIABLES
    songs,        \* the batch handed to downloadSongs: a sequence of Song
    sanitizedTitle, \* per item: downloadSong's const sanitizedTitle
    concurrency,  \* options.concurrency
    dirExists,    \* fs.existsSync(outputDir)
    batch,        \* "idle", "running", "returned", "rejected", "crashed"
    queue,        \* the p-queue's waiting jobs, by position in the batch
    job,          \* per item: pc, where, attempt, announced, and lines: the
                  \* lines the waitForReconnect call in progress has written
    files,        \* the paths that exist in outputDir
    results,      \* downloadSongs' results array
    events,       \* per item: the DownloadProgress events handed to onProgress
    fetchLog,     \* history, per item: the execSync calls made, how many of
                  \* them threw a network-signature text, the last outcome,
                  \* and whether one was made after a probe resolved false
    noRetry,      \* per item: what downloadSong of downloader.ts, the one
                  \* without retry, does with the outcomes this job meets
    envFault,     \* history, per item: an fs call or onProgress has thrown
    cli           \* the command's action: the step it is at, and once the
                  \* process has exited its exit code and the step it left from

vars == << songs, sanitizedTitle, concurrency, dirExists, batch, queue, job, files, results,
           events, fetchLog, noRetry, envFault, cli >>

Items == 1 .. Len(songs)

\* ------------------------------------------------------------- file names
\* A title is a sequence of characters.
IllegalChars == { "/", "\\", "?", "%", "*", ":", "|", "\"", "<", ">" }

RECURSIVE StripIllegal(_)
StripIllegal(s) ==
    IF s = << >> THEN << >>
    ELSE IF Head(s) \in IllegalChars THEN StripIllegal(Tail(s))
    ELSE << Head(s) >> \o StripIllegal(Tail(s))

RECURSIVE CollapseSpaces(_)
CollapseSpaces(s) ==
    IF Len(s) < 2 THEN s
    ELSE IF Head(s) = " " /\ s[2] = " " THEN CollapseSpaces(Tail(s))
    ELSE << Head(s) >> \o CollapseSpaces(Tail(s))

RECURSIVE TrimLeft(_)
TrimLeft(s) ==
    IF s # << >> /\ Head(s) = " " THEN TrimLeft(Tail(s)) ELSE s

RECURSIVE TrimRight(_)
TrimRight(s) ==
    IF s # << >> /\ s[Len(s)] = " " THEN TrimRight(SubSeq(s, 1, Len(s) - 1)) ELSE s

SliceLimit == 200

sanitizeFilename(fileName) ==
    LET t == TrimRight(TrimLeft(CollapseSpaces(StripIllegal(fileName))))
    IN  SubSeq(t, 1, IF Len(t) < SliceLimit THEN Len(t) ELSE SliceLimit)

\* sanitizeFilename(`${song.artist} - ${song.title}`)
SanitizedTitleOf(song) == sanitizeFilename(song.artist \o << " ", "-", " " >> \o song.title)
outputPath(i) == << sanitizedTitle[i], "mp3" >>
tempAudioPath(i) == << sanitizedTitle[i], "webm" >>

\* The k-th song of the catalogue the batches are drawn from.
Song(k) == [ id |-> k, artist |-> << "a" >>, title |-> << "t", ToString(k) >> ]

\* Another video whose title differs from Song(1)'s by a character that
\* file names may not hold.
Twin(k) == [ id |-> k, artist |-> << "a" >>, title |-> << "t", "?", "1" >> ]

\* The playlists: the first n songs of the catalogue, and one playlist of
\* two videos of nearly the same title.
Playlists ==
    { [ k \in 1 .. n |-> Song(k) ] : n \in 0 .. MaxItems } \cup { << Song(1), Twin(2) >> }

\* ------------------------------------------------------ the playlist source
\* What yt-dlp answers to fetchPlaylistMetadata.  An entry of the rich
\* document (-J) is null or the entry of a video; a line of the flat output
\* (--dump-json --flat-playlist) is the JSON of a video, a line that starts
\* with a brace and does not parse, or a line that does not start with one.
Null == 0
TwinEntry == MaxItems + 1
NotJson == 0
Warning == 0 - 1

Video(e) == IF e = TwinEntry THEN Twin(2) ELSE Song(e)

SeqsUpTo(S, n) == UNION { [ 1 .. m -> S ] : m \in 0 .. n }

\* rich: the -J call returned a document that parses; isArray: it holds an
\* entries array; flat: the fallback call returned.
Responses ==
    { [ rich |-> TRUE, isArray |-> a, entries |-> es, flat |-> FALSE, lines |-> << >> ] :
          a \in BOOLEAN, es \in SeqsUpTo(Null .. TwinEntry, MaxItems) }
    \cup
    { [ rich |-> FALSE, isArray |-> TRUE, entries |-> << >>, flat |-> f, lines |-> ls ] :
          f \in BOOLEAN, ls \in SeqsUpTo(Warning .. TwinEntry, MaxItems) }

Truthy(e) == e # Null
StartsWithBrace(line) == line # Warning
Parses(line) == line # NotJson

\* fetchPlaylistMetadata on the response r: it throws, or returns a Playlist.
FetchPlaylist(r) ==
    LET flatLines == SelectSeq(r.lines, StartsWithBrace)
        flatThrows == ~r.rich /\ (~r.flat \/ flatLines = << >>)
        entries == IF r.rich
                   THEN (IF r.isArray THEN r.entries ELSE << >>)
                   ELSE SelectSeq(flatLines, Parses)
        kept == SelectSeq(entries, Truthy)
        mapped == [ k \in 1 .. Len(kept) |-> Video(kept[k]) ]
    IN  IF flatThrows \/ entries = << >>
        THEN [ threw |-> TRUE, songs |-> << >>, totalCount |-> 0 ]
        ELSE [ threw |-> FALSE, songs |-> mapped, totalCount |-> Len(mapped) ]

\* --------------------------------------------------------------- records
NoFetch == [ calls |-> 0, netFails |-> 0, last |-> "none", unprobed |-> FALSE ]

Logged(log, outcome) ==
    [ calls |-> log.calls + 1,
      netFails |-> log.netFails + (IF outcome \in NetworkErrors THEN 1 ELSE 0),
      last |-> outcome,
      unprobed |-> log.unprobed ]

\* The fetch logged last was made although the probe before it had
\* resolved `online`.
Probed(log, online) == [ log EXCEPT !.unprobed = log.unprobed \/ ~online ]

\* Mutant of Returns: the probe never resolves true, the network never
\* comes back.
ReturnsNever(online) == FALSE

\* Mutant of Returns: waitForReconnect returns whatever the probe says.
ReturnsAnyway(online) == TRUE

\* waitForReconnect: if (online) return.
Returns(online) == online

Pending == [ pc |-> "pending", where |-> "pre", attempt |-> 0, announced |-> FALSE, lines |-> 0 ]
Queued == [ pc |-> "queued", where |-> "pre", attempt |-> 0, announced |-> FALSE, lines |-> 0 ]

\* downloadSong from its call to its first await: attempt = 1 and the first
\* waitForReconnect('') has called isOnline().
NewJob == [ pc |-> "probe", where |-> "pre", attempt |-> 1, announced |-> FALSE, lines |-> 0 ]

\* Job i at an await of downloadSong: a waitForReconnect call that has just
\* called isOnline() (pc "probe"), or the conversion promise.
At(pc, where, attempt) ==
    [ pc |-> pc, where |-> where, attempt |-> attempt, announced |-> FALSE, lines |-> 0 ]

Progress(status) ==
    [ status |-> status,
      progress |-> CASE status = "downloading" -> 0
                     [] status = "converting" -> 50
                     [] status = "completed" -> 100
                     [] OTHER -> 0 ]

\* error |-> "" stands for a result without the optional error field, and
\* filePath |-> << >> for the empty string.
SuccessResult(i) ==
    [ song |-> songs[i], filePath |-> outputPath(i), success |-> TRUE, error |-> "" ]

\* Mutant of FailureResult: the failed result names the temp file.
FailureResultWithTemp(i, errorMessage) ==
    [ song |-> songs[i], filePath |-> tempAudioPath(i), success |-> FALSE,
      error |-> errorMessage ]

\* Mutant of FailureResult: the error text is lost.
FailureResultUnknown(i, errorMessage) ==
    [ song |-> songs[i], filePath |-> << >>, success |-> FALSE, error |-> "Unknown error" ]

FailureResult(i, errorMessage) ==
    [ song |-> songs[i], filePath |-> << >>, success |-> FALSE, error |-> errorMessage ]

\* ------------------------------------------- downloadSong without retry
\* downloadSong of src/src/services/downloader/downloader.ts, driven by the
\* outcomes that the job of the same item meets: its events so far and the
\* success flag of its result.  It fetches once; what happens after it has
\* returned does not reach it.
NotCalled == [ pc |-> "fetching", events |-> << >>, success |-> FALSE ]

\* The downloading event, then execSync returns (the conversion promise
\* hands over the converting event), or throws (the catch hands over the
\* failed event and returns the failed result).
Fetched(s, outcome) ==
    IF s.pc # "fetching" THEN s
    ELSE IF outcome = "ok"
    THEN [ pc |-> "converting",
           events |-> << Progress("downloading"), Progress("converting") >>,
           success |-> FALSE ]
    ELSE [ pc |-> "failed",
           events |-> << Progress("downloading"), Progress("failed") >>,
           success |-> FALSE ]

\* ffmpeg's end event (the completed event, resolve, the successful result)
\* or its error event (reject, the catch).
Transcoded(s, ended) ==
    IF s.pc # "converting" THEN s
    ELSE IF ended
    THEN [ pc |-> "completed", events |-> Append(s.events, Progress("completed")),
           success |-> TRUE ]
    ELSE [ pc |-> "failed", events |-> Append(s.events, Progress("failed")),
           success |-> FALSE ]

\* ------------------------------------------------------- the command line
\* The action of src/src/index.ts at one of its steps, and after the
\* process has exited with `code` from the step `pc`.
Running(pc) == [ pc |-> pc, code |-> 0, from |-> "none" ]
Exited(code, pc) == [ pc |-> "exited", code |-> code, from |-> pc ]

\* Mutant of After: the staging directory is made before the playlist's
\* metadata is fetched.
AfterStagingFirst(pc) ==
    CASE pc = "validate" -> "staging"
      [] pc = "staging" -> "metadata"
      [] OTHER -> "download"

\* The order of the steps before the download.
After(pc) ==
    CASE pc = "validate" -> "metadata"
      [] pc = "metadata" -> "staging"
      [] OTHER -> "download"

\* ---------------------------------------------------------------- p-queue
RunningPcs == { "probe", "delay", "converting" }
Terminal == { "completed", "failed" }
Settled == { "completed", "failed", "thrown", "uncaught" }

\* The queue's pending count: the tasks started and not yet settled.
Active(j) == Cardinality({ i \in DOMAIN j : j[i].pc \in RunningPcs })

\* Mutant of CanStart: one slot of the pool is never used.
CanStartStrict(pendingCount, limit) == pendingCount + 1 < limit

\* Mutant of CanStart: the limit is checked off by one.
CanStartOffByOne(pendingCount, limit) == pendingCount <= limit

CanStart(pendingCount, limit) == pendingCount < limit

\* Mutant of Push: only a successful result is kept.
PushUnlessFailed(list, result) == IF result.success THEN Append(list, result) ELSE list

\* Mutant of Push: the results are kept in the order of the batch.
PushInBatchOrder(list, result) ==
    SelectSeq(list, LAMBDA r : r.song.id < result.song.id)
        \o << result >>
        \o SelectSeq(list, LAMBDA r : r.song.id >= result.song.id)

\* results.push(result) in the queued task.
Push(list, result) == Append(list, result)

\* queue.add for the songs k .. n in order: a task starts at once while the
\* pending count allows it and nothing waits, and waits otherwise.
RECURSIVE AddAll(_, _, _, _)
\* Mutant of AddAll: a task that has to wait is put at the head of the queue.
AddAllLifo(k, n, j, q) ==
    IF k > n THEN << j, q >>
    ELSE IF q = << >> /\ CanStart(Active(j), concurrency)
         THEN AddAll(k + 1, n, [ j EXCEPT ![k] = NewJob ], q)
         ELSE AddAll(k + 1, n, [ j EXCEPT ![k] = Queued ], << k >> \o q)

AddAll(k, n, j, q) ==
    IF k > n THEN << j, q >>
    ELSE IF q = << >> /\ CanStart(Active(j), concurrency)
         THEN AddAll(k + 1, n, [ j EXCEPT ![k] = NewJob ], q)
         ELSE AddAll(k + 1, n, [ j EXCEPT ![k] = Queued ], Append(q, k))

\* Mutant of BatchAfter: a failed job rejects its promise as a thrown one does.
BatchAfterFailFast(j, term) ==
    IF batch # "running" THEN batch
    ELSE IF term \in { "thrown", "failed" } THEN "rejected"
    ELSE IF \A k \in DOMAIN j : j[k].pc \in Terminal THEN "returned"
    ELSE "running"

\* Mutant of BatchAfter: the batch returns with the first result.
BatchAfterAny(j, term) ==
    IF batch # "running" THEN batch
    ELSE IF term = "thrown" THEN "rejected"
    ELSE "returned"

\* What Promise.all makes of the jobs once job i has settled as `term`.
BatchAfter(j, term) ==
    IF batch # "running" THEN batch
    ELSE IF term = "thrown" THEN "rejected"
    ELSE IF \A k \in DOMAIN j : j[k].pc \in Terminal THEN "returned"
    ELSE "running"

\* Job i leaves downloadSong: the task pushes its result (or rejects), the
\* queue starts the next waiting task, and Promise.all settles if it can; a
\* rejection is caught by the command's action, which exits with code 1.
Settle(i, term, result, ev, fs, log, fault) ==
    LET j1 == [ job EXCEPT ![i] = At(term, "pre", job[i].attempt) ]
        next == queue # << >> /\ CanStart(Active(j1), concurrency)
        j2 == IF next THEN [ j1 EXCEPT ![Head(queue)] = NewJob ] ELSE j1
    IN  /\ job' = j2
        /\ queue' = IF next THEN Tail(queue) ELSE queue
        /\ results' = IF term = "thrown" THEN results ELSE Push(results, result)
        /\ batch' = BatchAfter(j2, term)
        /\ cli' = IF BatchAfter(j2, term) = "rejected" THEN Exited(1, "download") ELSE cli
        /\ events' = [ events EXCEPT ![i] = ev ]
        /\ files' = fs
        /\ fetchLog' = [ fetchLog EXCEPT ![i] = log ]
        /\ envFault' = [ envFault EXCEPT ![i] = fault ]

\* Job i stays inside downloadSong, at its next await.
Stay(i, jrec, ev, fs, log, fault) ==
    /\ job' = [ job EXCEPT ![i] = jrec ]
    /\ events' = [ events EXCEPT ![i] = ev ]
    /\ files' = fs
    /\ fetchLog' = [ fetchLog EXCEPT ![i] = log ]
    /\ envFault' = [ envFault EXCEPT ![i] = fault ]
    /\ UNCHANGED << queue, results, batch, cli >>

\* ----------------------------------------------------------- downloadSong
\* Mutant of Catch: the failed result is returned with the temp file left.
CatchNoCleanup(i, errorMessage, ev, fs, log, fault) ==
    Settle(i, "failed", FailureResult(i, errorMessage),
           Append(ev, Progress("failed")), fs, log, fault)

\* The outer catch block: unlink the temp file if it exists, hand the
\* failed event to onProgress, return the failed result.  Neither call is
\* guarded: if one throws, downloadSong rejects.
Catch(i, errorMessage, ev, fs, log, fault) ==
    \E unlinkThrows, cbThrows \in BOOLEAN :
        /\ unlinkThrows => tempAudioPath(i) \in fs
        /\ IF unlinkThrows
           THEN Settle(i, "thrown", FailureResult(i, FsError), ev, fs, log, TRUE)
           ELSE IF cbThrows
           THEN Settle(i, "thrown", FailureResult(i, CallbackError), ev,
                       fs \ { tempAudioPath(i) }, log, TRUE)
           ELSE Settle(i, "failed", FailureResult(i, errorMessage),
                       Append(ev, Progress("failed")),
                       fs \ { tempAudioPath(i) }, log, fault)

\* Mutant of StartTranscode: the conversion starts without its event.
StartTranscodeUnannounced(i, ev, fs, log, fault) ==
    Stay(i, At("converting", "pre", job[i].attempt), ev, fs, log, fault)

\* The executor of the conversion promise: the converting event, then
\* ffmpeg is started.  A throw in the executor rejects the promise.
StartTranscode(i, ev, fs, log, fault) ==
    \E cbThrows \in BOOLEAN :
        IF cbThrows
        THEN Catch(i, CallbackError, ev, fs, log, TRUE)
        ELSE Stay(i, At("converting", "pre", job[i].attempt),
                  Append(ev, Progress("converting")), fs, log, fault)

\* Mutant of ShouldRetry: every failed fetch is retried, whatever its text.
ShouldRetryAnyError(message, attempt) == attempt < maxRetries

\* Mutant of ShouldRetry: the last attempt is retried too.
ShouldRetryInclusive(message, attempt) == isNetworkError(message) /\ attempt <= maxRetries

\* Mutant of ShouldRetry: a failed fetch is never retried.
ShouldRetryNever(message, attempt) == isNetworkError(message) /\ attempt < 1

\* The inner catch's test: wait for the network and retry, or rethrow.
ShouldRetry(message, attempt) == isNetworkError(message) /\ attempt < maxRetries

\* The for loop's condition and its increment.
LoopCond(attempt) == attempt <= maxRetries

\* Mutant of NextAttempt: the counter is not advanced.
NextAttemptStuck(attempt) == attempt

NextAttempt(attempt) == attempt + 1

\* A rejection of downloadSongs ends the run (src/src/index.ts exits the
\* process in its catch), and so does an uncaught exception.
Alive == batch = "running"

\* ------------------------------------------------------------- operations
\* The run starts at the command's first step, the staging directory not
\* made yet, songs being the playlist that fetchPlaylistMetadata will
\* return; or at a call of the exported downloadSongs by another caller,
\* whose output directory may or may not exist.
Init ==
    /\ songs \in Playlists
    /\ sanitizedTitle = [ i \in Items |-> SanitizedTitleOf(songs[i]) ]
    /\ concurrency \in 1 .. MaxConcurrency
    /\ cli \in { Running("validate"), Running("download") }
    /\ dirExists \in BOOLEAN
    /\ cli.pc = "validate" => ~dirExists
    /\ batch = "idle"
    /\ queue = << >>
    /\ job = [ i \in Items |-> Pending ]
    /\ files = {}
    /\ results = << >>
    /\ events = [ i \in Items |-> << >> ]
    /\ fetchLog = [ i \in Items |-> NoFetch ]
    /\ noRetry = [ i \in Items |-> NotCalled ]
    /\ envFault = [ i \in Items |-> FALSE ]

\* downloadSongs, up to its await of Promise.all (which an empty list of
\* promises passes at once).
downloadSongs ==
    /\ cli.pc = "download"
    /\ batch = "idle"
    /\ dirExists' = TRUE
    /\ LET started == AddAll(1, Len(songs), job, << >>)
       IN  /\ job' = started[1]
           /\ queue' = started[2]
    /\ batch' = IF Len(songs) = 0 THEN "returned" ELSE "running"
    /\ UNCHANGED << noRetry, songs, sanitizedTitle, concurrency, files, results, events, fetchLog,
                    envFault, cli >>

\* fs.mkdirSync(outputDir) throws: downloadSongs rejects before the queue
\* is created.
downloadSongsMkdirThrows ==
    /\ cli.pc = "download"
    /\ batch = "idle"
    /\ ~dirExists
    /\ batch' = "rejected"
    /\ cli' = Exited(1, "download")
    /\ UNCHANGED << noRetry, songs, sanitizedTitle, concurrency, dirExists, queue, job, files, results,
                    events, fetchLog, envFault >>

\* The lines of one call are counted up to MaxPolls: MaxPolls stands for
\* "MaxPolls or more".
Counted(n) == IF n < MaxPolls THEN n + 1 ELSE n

\* Mutant of ProbeOffline: a failed poll uses up an attempt.
ProbeOfflineConsumes(i) ==
    /\ i \in Items
    /\ Alive
    /\ job[i].pc = "probe"
    /\ ~Returns(FALSE)
    /\ job' = [ job EXCEPT ![i].pc = "delay", ![i].announced = TRUE,
                           ![i].lines = Counted(job[i].lines),
                           ![i].attempt = job[i].attempt + 1 ]
    /\ UNCHANGED << noRetry, songs, sanitizedTitle, concurrency, dirExists, batch, queue, files, results,
                    events, fetchLog, envFault, cli >>

\* waitForReconnect: isOnline() resolved false.  The call writes a line,
\* "No internet" if it has announced nothing yet and "Still offline"
\* otherwise, and sleeps.  (The line it writes when isOnline() resolves true
\* after an announcement is its last: the call returns.)
ProbeOffline(i) ==
    /\ i \in Items
    /\ Alive
    /\ job[i].pc = "probe"
    /\ ~Returns(FALSE)
    /\ job' = [ job EXCEPT ![i].pc = "delay", ![i].announced = TRUE,
                           ![i].lines = Counted(job[i].lines) ]
    /\ UNCHANGED << noRetry, songs, sanitizedTitle, concurrency, dirExists, batch, queue, files, results,
                    events, fetchLog, envFault, cli >>

\* waitForReconnect: delay(5000) elapsed, isOnline() is called again.
DelayElapsed(i) ==
    /\ i \in Items
    /\ Alive
    /\ job[i].pc = "delay"
    /\ job' = [ job EXCEPT ![i].pc = "probe" ]
    /\ UNCHANGED << noRetry, songs, sanitizedTitle, concurrency, dirExists, batch, queue, files, results,
                    events, fetchLog, envFault, cli >>

\* The waitForReconnect(prefix) after a failed attempt returns: continue,
\* attempt++, and the next pass of the loop calls waitForReconnect('').
RetryAfterReconnect(i) ==
    /\ i \in Items
    /\ Alive
    /\ job[i].pc = "probe"
    /\ job[i].where = "post"
    /\ \E online \in BOOLEAN : Returns(online)
    /\ IF LoopCond(NextAttempt(job[i].attempt))
       THEN Stay(i, At("probe", "pre", NextAttempt(job[i].attempt)),
                 events[i], files, fetchLog[i], envFault[i])
       ELSE StartTranscode(i, events[i], files, fetchLog[i], envFault[i])
    /\ UNCHANGED << noRetry, songs, sanitizedTitle, concurrency, dirExists >>

\* The waitForReconnect('') before an attempt returns and onProgress throws
\* on the downloading event.
DownloadingCallbackThrows(i) ==
    /\ i \in Items
    /\ Alive
    /\ job[i].pc = "probe"
    /\ job[i].where = "pre"
    /\ \E online \in BOOLEAN : Returns(online)
    /\ Catch(i, CallbackError, events[i], files, fetchLog[i], TRUE)
    /\ UNCHANGED << noRetry, songs, sanitizedTitle, concurrency, dirExists >>

\* The waitForReconnect('') before an attempt returns, the downloading
\* event is handed over, execSync returns: break, and the conversion starts.
FetchSucceeds(i) ==
    /\ i \in Items
    /\ Alive
    /\ job[i].pc = "probe"
    /\ job[i].where = "pre"
    /\ \E online \in BOOLEAN :
         /\ Returns(online)
         /\ StartTranscode(i, Append(events[i], Progress("downloading")),
                           files \cup { tempAudioPath(i) },
                           Probed(Logged(fetchLog[i], "ok"), online), envFault[i])
    /\ noRetry' = [ noRetry EXCEPT ![i] = Fetched(noRetry[i], "ok") ]
    /\ UNCHANGED << songs, sanitizedTitle, concurrency, dirExists >>

\* The same, and execSync throws: the inner catch unlinks what the fetch
\* left of the temp file, then waits for the network and retries, or
\* rethrows to the outer catch.
FetchFails(i) ==
    /\ i \in Items
    /\ Alive
    /\ job[i].pc = "probe"
    /\ job[i].where = "pre"
    /\ \E message \in FetchErrors, partial, unlinkThrows, online \in BOOLEAN :
         LET ev == Append(events[i], Progress("downloading"))
             log == Probed(Logged(fetchLog[i], message), online)
             fs == IF partial THEN files \cup { tempAudioPath(i) } ELSE files
             cleaned == fs \ { tempAudioPath(i) }
         IN  /\ Returns(online)
             /\ noRetry' = [ noRetry EXCEPT ![i] = Fetched(noRetry[i], message) ]
             /\ unlinkThrows => tempAudioPath(i) \in fs
             /\ IF unlinkThrows
                THEN Catch(i, FsError, ev, fs, log, TRUE)
                ELSE IF ShouldRetry(message, job[i].attempt)
                THEN Stay(i, At("probe", "post", job[i].attempt),
                          ev, cleaned, log, envFault[i])
                ELSE Catch(i, message, ev, cleaned, log, envFault[i])
    /\ UNCHANGED << songs, sanitizedTitle, concurrency, dirExists >>

\* ffmpeg's end event: unlink the temp file, hand over the completed event,
\* resolve; downloadSong returns the successful result.
TranscodeEnds(i) ==
    /\ i \in Items
    /\ Alive
    /\ job[i].pc = "converting"
    /\ Settle(i, "completed", SuccessResult(i),
              Append(events[i], Progress("completed")),
              (files \ { tempAudioPath(i) }) \cup { outputPath(i) },
              fetchLog[i], envFault[i])
    /\ noRetry' = [ noRetry EXCEPT ![i] = Transcoded(noRetry[i], TRUE) ]
    /\ UNCHANGED << songs, sanitizedTitle, concurrency, dirExists >>

\* ffmpeg's end event, and unlinkSync or onProgress throws inside the
\* listener: nothing catches it, the promise is never settled and the
\* exception is uncaught in the process, which exits with code 1.
EndHandlerThrows(i) ==
    /\ i \in Items
    /\ Alive
    /\ job[i].pc = "converting"
    /\ \E unlinkThrows \in BOOLEAN :
         /\ unlinkThrows => tempAudioPath(i) \in files
         /\ files' = IF unlinkThrows THEN files \cup { outputPath(i) }
                     ELSE (files \ { tempAudioPath(i) }) \cup { outputPath(i) }
    /\ job' = [ job EXCEPT ![i].pc = "uncaught" ]
    /\ envFault' = [ envFault EXCEPT ![i] = TRUE ]
    /\ batch' = "crashed"
    /\ cli' = Exited(1, "download")
    /\ UNCHANGED << noRetry, songs, sanitizedTitle, concurrency, dirExists, queue, results, events, fetchLog >>

\* Mutant of TranscodeFails: after a failed conversion the item is fetched
\* again.
TranscodeFailsRetries(i) ==
    /\ i \in Items
    /\ Alive
    /\ job[i].pc = "converting"
    /\ Stay(i, At("probe", "pre", job[i].attempt), events[i], files, fetchLog[i], envFault[i])
    /\ noRetry' = [ noRetry EXCEPT ![i] = Transcoded(noRetry[i], FALSE) ]
    /\ UNCHANGED << songs, sanitizedTitle, concurrency, dirExists >>

\* ffmpeg's error event: reject(err), caught by the outer catch.
TranscodeFails(i) ==
    /\ i \in Items
    /\ Alive
    /\ job[i].pc = "converting"
    /\ Catch(i, FfmpegError, events[i], files, fetchLog[i], envFault[i])
    /\ noRetry' = [ noRetry EXCEPT ![i] = Transcoded(noRetry[i], FALSE) ]
    /\ UNCHANGED << songs, sanitizedTitle, concurrency, dirExists >>

\* The command's action, step 1: the URL is not a YouTube URL, or holds no
\* playlist id, and validateAndExtractId throws; or it returns the id.
validateAndExtractId ==
    /\ cli.pc = "validate"
    /\ \E valid, extracted \in BOOLEAN :
         cli' = IF valid /\ extracted THEN Running(After("validate"))
                ELSE Exited(1, "validate")
    /\ UNCHANGED << noRetry, songs, sanitizedTitle, concurrency, dirExists, batch, queue, job, files,
                    results, events, fetchLog, envFault >>

\* Step 2: fetchPlaylistMetadata throws, or returns the playlist whose
\* songs the run goes on with.
fetchPlaylistMetadata ==
    /\ cli.pc = "metadata"
    /\ \E r \in Responses :
         LET out == FetchPlaylist(r)
         IN  IF out.threw
             THEN cli' = Exited(1, "metadata")
             ELSE /\ out.songs = songs
                  /\ cli' = Running(After("metadata"))
    /\ UNCHANGED << noRetry, songs, sanitizedTitle, concurrency, dirExists, batch, queue, job, files,
                    results, events, fetchLog, envFault >>

\* fs.mkdirSync(tempDir, { recursive: true }) makes the staging directory,
\* or throws.
MakeStagingDir ==
    /\ cli.pc = "staging"
    /\ \E made \in BOOLEAN :
         /\ cli' = IF made THEN Running(After("staging")) ELSE Exited(1, "staging")
         /\ dirExists' = made
    /\ UNCHANGED << noRetry, songs, sanitizedTitle, concurrency, batch, queue, job, files,
                    results, events, fetchLog, envFault >>

\* Step 5: with --zip createZip is started (it may throw at once); without,
\* the files are moved to the output directory and the staging directory
\* is removed (a rename may throw, some files moved), and the action ends.
Pack ==
    \E zip, done \in BOOLEAN :
        IF zip
        THEN /\ cli' = IF done THEN Running("archiving") ELSE Exited(1, "archiving")
             /\ UNCHANGED << files, dirExists >>
        ELSE IF done
        THEN /\ cli' = Exited(0, "moving")
             /\ files' = {}
             /\ dirExists' = FALSE
        ELSE /\ cli' = Exited(1, "moving")
             /\ files' \in SUBSET files
             /\ UNCHANGED dirExists

\* downloadSongs has returned: with no successful result the action exits
\* with code 1; otherwise step 4, addMetadataToFiles unless --no-metadata.
Finalize ==
    /\ cli.pc = "download"
    /\ batch = "returned"
    /\ IF \A k \in 1 .. Len(results) : ~results[k].success
       THEN /\ cli' = Exited(1, "finalize")
            /\ UNCHANGED << files, dirExists >>
       ELSE \E metadata \in BOOLEAN :
                IF metadata
                THEN /\ cli' = Running("tagging")
                     /\ UNCHANGED << files, dirExists >>
                ELSE Pack
    /\ UNCHANGED << noRetry, songs, sanitizedTitle, concurrency, batch, queue, job,
                    results, events, fetchLog, envFault >>

\* addMetadataToFiles resolves (addMetadata catches what tagging throws).
addMetadataToFiles ==
    /\ cli.pc = "tagging"
    /\ Pack
    /\ UNCHANGED << noRetry, songs, sanitizedTitle, concurrency, batch, queue, job,
                    results, events, fetchLog, envFault >>

\* createZip resolves and the staging directory is removed, or it rejects.
createZip ==
    /\ cli.pc = "archiving"
    /\ \E archived \in BOOLEAN :
         IF archived
         THEN /\ cli' = Exited(0, "archiving")
              /\ files' = {}
              /\ dirExists' = FALSE
         ELSE /\ cli' = Exited(1, "archiving")
              /\ UNCHANGED << files, dirExists >>
    /\ UNCHANGED << noRetry, songs, sanitizedTitle, concurrency, batch, queue, job,
                    results, events, fetchLog, envFault >>

Next ==
    \/ validateAndExtractId
    \/ fetchPlaylistMetadata
    \/ MakeStagingDir
    \/ Finalize
    \/ addMetadataToFiles
    \/ createZip
    \/ downloadSongs
    \/ downloadSongsMkdirThrows
    \/ \E i \in 1 .. MaxItems : ProbeOffline(i)
    \/ \E i \in 1 .. MaxItems : DelayElapsed(i)
    \/ \E i \in 1 .. MaxItems : RetryAfterReconnect(i)
    \/ \E i \in 1 .. MaxItems : DownloadingCallbackThrows(i)
    \/ \E i \in 1 .. MaxItems : FetchSucceeds(i)
    \/ \E i \in 1 .. MaxItems : FetchFails(i)
    \/ \E i \in 1 .. MaxItems : TranscodeEnds(i)
    \/ \E i \in 1 .. MaxItems : EndHandlerThrows(i)
    \/ \E i \in 1 .. MaxItems : TranscodeFails(i)

Spec == Init /\ [][Next]_vars

\* ----------------------------------------------------------------- fairness
LiveItems == 2

InitLive == Init /\ Len(songs) \in 1 .. LiveItems

\* isOnline() resolves true: waitForReconnect returns to downloadSong.
ProbeOnline(i) ==
    \/ RetryAfterReconnect(i)
    \/ DownloadingCallbackThrows(i)
    \/ FetchSucceeds(i)
    \/ FetchFails(i)

\* ffmpeg emits end or error.
TranscodeDone(i) ==
    \/ TranscodeEnds(i)
    \/ EndHandlerThrows(i)
    \/ TranscodeFails(i)

\* The event loop runs every timer and every settled promise; every
\* conversion ends; and the probe, tried again and again, returns true in
\* the end.
Fairness ==
    /\ WF_vars(downloadSongs \/ downloadSongsMkdirThrows)
    /\ \A i \in 1 .. LiveItems :
         /\ WF_vars(DelayElapsed(i))
         /\ SF_vars(ProbeOnline(i))
         /\ WF_vars(TranscodeDone(i))

SpecLive == InitLive /\ [][Next]_vars /\ Fairness

\* ------------------------------------------------------- claim vocabulary
ResultIndexes(i) == { k \in 1 .. Len(results) : results[k].song = songs[i] }
ResultOf(i) == results[CHOOSE k \in ResultIndexes(i) : TRUE]
Started(i) == job[i].pc \notin { "pending", "queued" }
InFlight(i) == Started(i) /\ job[i].pc \notin Settled
NoFault == \A i \in Items : ~envFault[i]
FailedWith(i, message) ==
    /\ job[i].pc = "failed"
    /\ ResultIndexes(i) # {}
    /\ ResultOf(i).success = FALSE
    /\ ResultOf(i).error = message
    /\ ResultOf(i).filePath = << >>
Statuses(i) == { events[i][k].status : k \in 1 .. Len(events[i]) }
\* No other item of the batch has item i's sanitized name, and so its paths.
Unshared(i) == \A k \in Items \ { i } : sanitizedTitle[k] # sanitizedTitle[i]

\* C1: when downloadSongs returns, it returns exactly one result per item of
\* the batch: as many results as items, every item the song of exactly one
\* result, and that result the outcome of that item's own job (success and
\* the item's own output path for a completed job, failure for a failed one),
\* whatever the order in which the jobs finished.
C1_OneResultPerItem ==
    batch = "returned" =>
        /\ Len(results) = Len(songs)
        /\ \A i \in Items :
             /\ Cardinality(ResultIndexes(i)) = 1
             /\ ResultOf(i).success = (job[i].pc = "completed")
             /\ ResultOf(i).success => ResultOf(i).filePath = outputPath(i)

\* Reached: a batch of three has returned, its results in another order than
\* the batch's, one of them a failure.
C1_Witness ==
    /\ batch = "returned"
    /\ Len(songs) = 3
    /\ results[1].song = songs[2]
    /\ results[2].song = songs[3]
    /\ results[3].song = songs[1]
    /\ ~results[1].success
    /\ results[2].success

\* C2: the number of jobs that have started and have not settled never
\* exceeds the concurrency setting.
C2_BoundedActive ==
    Cardinality({ i \in Items : InFlight(i) }) <= concurrency

\* Reached: at concurrency 2 the third item, which had to wait, runs
\* beside one of the first two after the other one has settled.
C2_Witness ==
    /\ concurrency = 2
    /\ Len(songs) = 3
    /\ Cardinality({ i \in Items : InFlight(i) }) = 2
    /\ InFlight(3)
    /\ \E i \in Items : job[i].pc \in Terminal

\* C3: a failed fetch or a failed transcode of one item does not abort the
\* batch.  As long as no fs call and no progress callback has thrown, a
\* batch with failed items has not been rejected and the process has not
\* crashed, the items behind the failed one are still admitted (an item
\* waits only while the pool is full), and the returned list holds one
\* result per item, success=false with the error for the failed items and
\* success=true for the completed ones.
C3_FailureDoesNotAbort ==
    (NoFault /\ \E i \in Items : job[i].pc = "failed") =>
        /\ batch \in { "running", "returned" }
        /\ \A i \in Items : job[i].pc \in Terminal => Cardinality(ResultIndexes(i)) = 1
        /\ (batch = "running" /\ queue # << >>) =>
               Cardinality({ i \in Items : InFlight(i) }) = concurrency
        /\ batch = "returned" =>
               \A i \in Items :
                   IF job[i].pc = "failed"
                   THEN ~ResultOf(i).success /\ ResultOf(i).error \in ToolErrors \cup NetworkErrors \cup { FfmpegError }
                   ELSE job[i].pc = "completed" /\ ResultOf(i).success

\* Reached: two items, the first one's transcode failed, the second one
\* succeeded, and the batch has returned both results.
C3_Witness ==
    /\ Len(songs) = 2
    /\ batch = "returned"
    /\ NoFault
    /\ FailedWith(1, FfmpegError)
    /\ job[2].pc = "completed"
    /\ ResultOf(2).success

\* C4: a fetch that throws a text without a network signature is the job's
\* last fetch: right after it the job has left downloadSong, it is the only
\* fetch of the job that did not fail on the network, and (no fs call or
\* callback having thrown) the job is failed and its result records that
\* text.
C4_NonNetworkErrorIsTerminal ==
    \A i \in Items :
        fetchLog[i].last \in ToolErrors =>
            /\ job[i].pc \in Settled
            /\ fetchLog[i].calls = fetchLog[i].netFails + 1
            /\ "converting" \notin Statuses(i)
            /\ ~envFault[i] => FailedWith(i, fetchLog[i].last)

\* Reached: a job failed on its first fetch, with a tool error, recorded.
C4_Witness ==
    \E i \in Items :
        /\ fetchLog[i].last \in ToolErrors
        /\ fetchLog[i].calls = 1
        /\ FailedWith(i, fetchLog[i].last)

\* C5: a job whose fetch has failed on the network with attempts left does
\* not stay there: it completes, unless what the claim assumes fails for it
\* (a later fetch throws a text without a network signature, the fourth
\* attempt fails on the network too, the transcode fails, an fs call or a
\* callback throws, or the run is ended by another job's exception).
NetFailedWithBudget(i) ==
    /\ i \in Items
    /\ fetchLog[i].last \in NetworkErrors
    /\ fetchLog[i].calls < 4
    /\ ~envFault[i]

AssumptionFails(i) ==
    /\ i \in Items
    /\ \/ fetchLog[i].last \in ToolErrors
       \/ fetchLog[i].last \in NetworkErrors /\ fetchLog[i].calls >= 4
       \/ FailedWith(i, FfmpegError)
       \/ envFault[i]
       \/ batch \in { "rejected", "crashed" }

C6_ExhaustedBudgetFails ==
    \A i \in Items :
        fetchLog[i].netFails >= 4 =>
            /\ job[i].pc \in Settled
            /\ ~envFault[i] =>
                   /\ fetchLog[i].last \in NetworkErrors
                   /\ FailedWith(i, fetchLog[i].last)

\* Reached: a job that failed four times on the network, and is failed.
C6_Witness ==
    \E i \in Items :
        /\ fetchLog[i].netFails = 4
        /\ FailedWith(i, fetchLog[i].last)
        /\ Len(events[i]) = 5

\* C7: no item is fetched more than four times; a job waits for the network
\* to retry only after fewer than four attempts; a network failure of the
\* fourth attempt ends the job with no conversion started, failed with that
\* error recorded (no fs call or callback having thrown), and with nothing
\* left at its temp path (a path that no other item of the batch uses).
C7_AtMostFourAttempts ==
    \A i \in Items :
        /\ fetchLog[i].calls <= 4
        /\ job[i].attempt <= 4
        /\ (job[i].pc \in { "probe", "delay" } /\ job[i].where = "post") =>
               /\ fetchLog[i].calls < 4
               /\ fetchLog[i].last \in NetworkErrors
        /\ (fetchLog[i].calls = 4 /\ fetchLog[i].last \in NetworkErrors) =>
               /\ job[i].pc \in Settled
               /\ "converting" \notin Statuses(i)
               /\ (tempAudioPath(i) \in files /\ Unshared(i)) => envFault[i]
               /\ ~envFault[i] => FailedWith(i, fetchLog[i].last)

\* Reached: the fourth attempt failed on the network and the job is failed;
\* another job is waiting to retry after its third failure.
C7_Witness ==
    /\ \E i \in Items :
         /\ fetchLog[i].calls = 4
         /\ fetchLog[i].last \in NetworkErrors
         /\ job[i].attempt = 4
         /\ FailedWith(i, fetchLog[i].last)
    /\ \E i \in Items :
         /\ job[i].pc = "probe"
         /\ job[i].where = "post"
         /\ fetchLog[i].calls = 3

\* C8: a completed job's result is success=true with its own output path,
\* its fetches are the k network failures and the one success that followed
\* (k <= 3), and its attempt counter is k + 1; and a job whose last fetch
\* succeeded and that has left downloadSong without a transcode error and
\* without an fs call or callback throwing is completed.
C8_RetryThenSucceed ==
    \A i \in Items :
        /\ job[i].pc = "completed" =>
               /\ ResultIndexes(i) # {}
               /\ ResultOf(i).success
               /\ ResultOf(i).filePath = outputPath(i)
               /\ fetchLog[i].last = "ok"
               /\ fetchLog[i].netFails <= 3
               /\ fetchLog[i].calls = fetchLog[i].netFails + 1
               /\ job[i].attempt = fetchLog[i].netFails + 1
        /\ ( /\ fetchLog[i].last = "ok"
             /\ job[i].pc \in Settled
             /\ ~envFault[i]
             /\ ~FailedWith(i, FfmpegError) ) => job[i].pc = "completed"

\* Reached: three items at concurrency 2, the second one's fetch failed
\* twice on the network and then succeeded; all three results are
\* success=true and the second job's attempt counter is 3.
C8_Witness ==
    /\ Len(songs) = 3
    /\ concurrency = 2
    /\ batch = "returned"
    /\ \A k \in 1 .. 3 : results[k].success
    /\ fetchLog[2].netFails = 2
    /\ fetchLog[2].calls = 3
    /\ job[2].attempt = 3
    /\ fetchLog[1].calls = 1
    /\ fetchLog[3].calls = 1

\* C9: downloadSongs called with an empty batch rejects; it does not return.
C9_EmptyBatchRejects ==
    (Len(songs) = 0 /\ batch # "idle") => batch = "rejected"

\* C10: no exception escapes downloadSong: a job never ends with its
\* promise rejected or with an exception uncaught in an ffmpeg listener.
C10_NoExceptionEscapes ==
    \A i \in Items : job[i].pc \notin { "thrown", "uncaught" }

\* C11: the progress values of the events handed to onProgress for one item
\* never decrease over the job's life.
C11_ProgressMonotonic ==
    \A i \in Items :
        \A k \in 1 .. Len(events[i]) :
            k < Len(events[i]) => events[i][k].progress <= events[i][k + 1].progress

\* C12: every fetch is made on the return of the waitForReconnect('') call
\* of its own pass of the loop.  In states: a job that waits in that call
\* for attempt a has made a - 1 fetches and handed over a - 1 events, and no
\* job has made more fetches than its attempt counter says.  In steps: a
\* fetch is made only by a job whose waitForReconnect('') is polling, and it
\* is the fetch of that attempt; and a poll that finds the network down
\* leaves the job waiting, with its attempt counter, its fetches, its events
\* and the results as they were.
C12_Waiting ==
    \A i \in Items :
        /\ fetchLog[i].calls <= job[i].attempt
        /\ (job[i].pc \in { "probe", "delay" } /\ job[i].where = "pre") =>
               /\ fetchLog[i].calls = job[i].attempt - 1
               /\ Len(events[i]) = job[i].attempt - 1

C12_Step ==
    \A i \in 1 .. MaxItems :
        i \in Items =>
            /\ fetchLog'[i] # fetchLog[i] =>
                   /\ job[i].pc = "probe"
                   /\ job[i].where = "pre"
                   /\ fetchLog'[i].calls = job[i].attempt
            /\ (job[i].pc = "probe" /\ job'[i].pc = "delay") =>
                   /\ job'[i].attempt = job[i].attempt
                   /\ fetchLog'[i] = fetchLog[i]
                   /\ events'[i] = events[i]
                   /\ results' = results

Converting(i) == { k \in 1 .. Len(events[i]) : events[i][k].status = "converting" }

C13_TranscodeOnce ==
    \A i \in Items :
        /\ Cardinality(Converting(i)) <= 1
        /\ job[i].pc = "converting" => Converting(i) # {}
        /\ Converting(i) # {} =>
               /\ fetchLog[i].last = "ok"
               /\ fetchLog[i].calls = fetchLog[i].netFails + 1
               /\ \A k \in Converting(i) :
                      \A m \in 1 .. Len(events[i]) :
                          m > k => events[i][m].status \in { "completed", "failed" }
               /\ job[i].pc = "failed" => FailedWith(i, FfmpegError)

\* Reached: a job fetched twice, converted once, and is failed with the
\* transcoder's error.
C13_Witness ==
    \E i \in Items :
        /\ FailedWith(i, FfmpegError)
        /\ fetchLog[i].calls = 2
        /\ Cardinality(Converting(i)) = 1
        /\ Len(events[i]) = 4

\* C14: once a job whose conversion was started has left downloadSong,
\* nothing is left at its temp path (a path that no other item of the batch
\* uses), unless the deletion or a callback threw, in which case no result
\* was returned; a job that returned a result has had its temp file deleted.
C14_TempDeleted ==
    \A i \in Items :
        (Converting(i) # {} /\ job[i].pc \in Settled /\ Unshared(i)) =>
            /\ job[i].pc \in Terminal => tempAudioPath(i) \notin files
            /\ tempAudioPath(i) \in files =>
                   envFault[i] /\ job[i].pc \in { "thrown", "uncaught" }

\* Reached: of two jobs one's conversion failed and the other's succeeded;
\* the output of the second exists and neither temp file does.
C14_Witness ==
    /\ Len(songs) = 2
    /\ Unshared(1)
    /\ FailedWith(1, FfmpegError)
    /\ job[2].pc = "completed"
    /\ outputPath(2) \in files
    /\ tempAudioPath(1) \notin files
    /\ tempAudioPath(2) \notin files

\* C15: one waitForReconnect call writes at most one line while the network
\* stays down (one line for the one transition to offline), however many
\* polls fail.
C15_OneNoticePerTransition ==
    \A i \in Items : job[i].lines <= 1

\* C16: the process exits with code 0 if some item was downloaded
\* successfully and with code 1 otherwise.
C16_ExitCode ==
    cli.pc = "exited" =>
        (cli.code = 0 <=> \E k \in 1 .. Len(results) : results[k].success)

\* C17: jobs are started in the order of the batch: an item is started only
\* when every item before it has been, and the waiting items wait in the
\* order of the batch.
C17_AdmittedInOrder ==
    /\ \A i, k \in Items : (i < k /\ Started(k)) => Started(i)
    /\ \A a, b \in 1 .. Len(queue) : a < b => queue[a] < queue[b]

\* Reached: at concurrency 2 the second item has finished before the first,
\* and the third was started in its place.
C17_Witness ==
    /\ concurrency = 2
    /\ Len(songs) = 3
    /\ job[2].pc \in Terminal
    /\ InFlight(1)
    /\ InFlight(3)
    /\ fetchLog[3].calls = 1

\* C18: while the batch runs, an item waits only while the pool is full:
\* if the queue is not empty, exactly `concurrency` jobs are in flight; and
\* the queue holds exactly the items that have not been started.
C18_WorkConserving ==
    batch = "running" =>
        /\ queue # << >> => Cardinality({ i \in Items : InFlight(i) }) = concurrency
        /\ \A i \in Items :
               ~Started(i) <=> (\E k \in 1 .. Len(queue) : queue[k] = i)

\* Reached: at concurrency 1 the first job has failed, the second runs in
\* its place and the third waits.
C18_Witness ==
    /\ concurrency = 1
    /\ Len(songs) = 3
    /\ job[1].pc = "failed"
    /\ InFlight(2)
    /\ queue = << 3 >>

\* C19: two jobs of one batch that are in flight together have different
\* temp paths and different output paths.
C19_DistinctPaths ==
    \A i, k \in Items :
        (i # k /\ InFlight(i) /\ InFlight(k)) =>
            /\ tempAudioPath(i) # tempAudioPath(k)
            /\ outputPath(i) # outputPath(k)

\* C20: before the URL is validated and the playlist's metadata is fetched
\* nothing has been done, and a failure of either ends the run with code 1
\* with no staging directory made, downloadSongs not called and no job
\* started.
NothingStarted ==
    /\ ~dirExists
    /\ batch = "idle"
    /\ files = {}
    /\ results = << >>
    /\ \A i \in Items : job[i] = Pending /\ events[i] = << >> /\ fetchLog[i] = NoFetch

C20_PreflightIsFatal ==
    /\ cli.pc \in { "validate", "metadata" } => NothingStarted
    /\ (cli.pc = "exited" /\ cli.from \in { "validate", "metadata" }) =>
           cli.code = 1 /\ NothingStarted

\* Reached: the metadata of a playlist of three could not be fetched, and
\* the run has ended.
C20_Witness ==
    /\ cli = Exited(1, "metadata")
    /\ Len(songs) = 3

\* C21: the playlist that fetchPlaylistMetadata returns, and the run goes
\* on with, has at least one song.
C21_PlaylistNotEmpty == cli.pc = "staging" => Len(songs) >= 1

\* C22: without a thrown fs call or callback, the events of an item follow
\* its phases: none while it is pending, one or more downloading events
\* while it fetches, then the converting event, then the completed event;
\* or the failed event after any of them.  The item has a terminal event
\* exactly when its job is terminal, that event is its last and its only
\* terminal one, and it agrees with the success flag of the item's result.
StatusAt(i, k) == events[i][k].status
LastStatus(i) == IF events[i] = << >> THEN "none" ELSE StatusAt(i, Len(events[i]))

C22_Shape(i) ==
    \A k \in 1 .. Len(events[i]) :
        /\ StatusAt(i, k) \in { "downloading", "converting", "completed", "failed" }
        /\ StatusAt(i, k) = "downloading" =>
               \A m \in 1 .. k - 1 : StatusAt(i, m) = "downloading"
        /\ StatusAt(i, k) = "converting" => k > 1 /\ StatusAt(i, k - 1) = "downloading"
        /\ StatusAt(i, k) = "completed" => k > 1 /\ StatusAt(i, k - 1) = "converting"
        /\ StatusAt(i, k) \in { "completed", "failed" } => k = Len(events[i])

C22_PhaseSequence ==
    \A i \in Items : ~envFault[i] =>
        /\ C22_Shape(i)
        /\ ~Started(i) => events[i] = << >>
        /\ job[i].pc \in { "probe", "delay" } => LastStatus(i) \in { "none", "downloading" }
        /\ job[i].pc = "converting" => LastStatus(i) = "converting"
        /\ job[i].pc \in Terminal <=> LastStatus(i) \in { "completed", "failed" }
        /\ job[i].pc \in Terminal =>
               /\ LastStatus(i) = job[i].pc
               /\ ResultIndexes(i) # {}
               /\ ResultOf(i).success <=> LastStatus(i) = "completed"

\* Reached: one item has completed after a retry, with two downloading
\* events, and another has failed while converting.
C22_Witness ==
    /\ NoFault
    /\ \E i, k \in Items :
           /\ job[i].pc = "completed"
           /\ Len(events[i]) = 4
           /\ job[k].pc = "failed"
           /\ Len(events[k]) = 3
           /\ StatusAt(k, 2) = "converting"

\* C23: downloadSongs has returned only if every job of the batch is
\* terminal: none is waiting in the queue, none is in flight.
C23_ReturnsAfterAllTerminal ==
    batch = "returned" =>
        /\ queue = << >>
        /\ \A i \in Items : job[i].pc \in Terminal /\ ~InFlight(i)

\* Reached: a batch of three at concurrency 1 has returned, its last item
\* completed after the first had failed.
C23_Witness ==
    /\ batch = "returned"
    /\ concurrency = 1
    /\ Len(songs) = 3
    /\ job[1].pc = "failed"
    /\ job[3].pc = "completed"

\* C24: no fetch is made unless the probe made just before it resolved
\* true; a waitForReconnect call sleeps only after a probe that resolved
\* false, and after the sleep it does nothing but probe again: while a job
\* sleeps it hands over no event and makes no fetch.
C24_Waits ==
    \A i \in Items :
        /\ ~fetchLog[i].unprobed
        /\ job[i].pc = "delay" => job[i].announced /\ job[i].lines >= 1

C24_Step ==
    \A i \in Items :
        (job[i].pc = "delay" /\ job'[i] # job[i]) =>
            /\ job'[i] = [ job[i] EXCEPT !.pc = "probe" ]
            /\ events'[i] = events[i]
            /\ fetchLog'[i] = fetchLog[i]

C24_ReturnsOnlyOnline == [] C24_Waits /\ [][C24_Step]_vars

\* Reached: one job has fetched a second time, after the waits that follow
\* a network failure have returned, while another sleeps after its second
\* failed probe.
C24_Witness ==
    \E i, k \in Items :
        /\ job[i].pc = "converting"
        /\ fetchLog[i].calls = 2
        /\ job[k].pc = "delay"
        /\ job[k].lines = MaxPolls

\* C25: the results are in the order in which the jobs complete, whatever
\* their position in the batch: a step in which a job becomes terminal
\* appends that job's own result (its song, its success flag) to the end of
\* the list, and no other step changes the list.
C25_Step ==
    \/ /\ results' = results
       /\ \A i \in Items : job'[i].pc \in Terminal => job[i].pc \in Terminal
    \/ \E i \in Items :
           /\ job[i].pc \notin Terminal
           /\ job'[i].pc \in Terminal
           /\ Len(results') = Len(results) + 1
           /\ SubSeq(results', 1, Len(results)) = results
           /\ results'[Len(results')].song = songs[i]
           /\ results'[Len(results')].success <=> job'[i].pc = "completed"

C25_CompletionOrder == [][C25_Step]_vars

\* Reached: the batch has returned the second item's result before the
\* first item's.
C25_Witness ==
    /\ batch = "returned"
    /\ Len(results) = 2
    /\ results[1].song = songs[2]
    /\ results[2].song = songs[1]

\* C26: in a batch whose sanitized names are pairwise distinct, the temp
\* file of a terminal job does not exist, and neither does the temp file of
\* a job that is between two attempts; the result of a failed job has the
\* empty file path and the result of a completed job the path of its .mp3
\* file.
C26_NoTempLeftBehind ==
    (\A i \in Items : Unshared(i)) =>
        \A i \in Items :
            /\ job[i].pc \in Terminal \cup { "probe", "delay" } =>
                   tempAudioPath(i) \notin files
            /\ job[i].pc = "failed" =>
                   ResultIndexes(i) # {} /\ ResultOf(i).filePath = << >>
            /\ job[i].pc = "completed" =>
                   ResultIndexes(i) # {} /\ ResultOf(i).filePath = outputPath(i)

\* Reached: of three items with distinct names the first failed on a tool
\* error, the second completed after a network failure, the third waits to
\* retry after a failed fetch; only the second's .mp3 file exists.
C26_Witness ==
    /\ Len(songs) = 3
    /\ \A i \in Items : Unshared(i)
    /\ \E m \in ToolErrors : FailedWith(1, m)
    /\ job[2].pc = "completed"
    /\ fetchLog[2].netFails = 1
    /\ job[3].pc = "probe"
    /\ job[3].where = "post"
    /\ files = { outputPath(2) }

\* C27: for an item whose fetch never fails with a network-signature text
\* (and whose fs calls and callbacks do not throw), downloadSong with retry
\* and downloadSong without it hand over the same events in the same order
\* and return the same success flag.  After a network-signature failure the
\* one without retry has failed at its only fetch, whatever the other one
\* goes on to do.
C27_Agrees(i) ==
    /\ noRetry[i].events = events[i]
    /\ job[i].pc \in Terminal =>
           /\ noRetry[i].pc = job[i].pc
           /\ ResultIndexes(i) # {}
           /\ noRetry[i].success = ResultOf(i).success

C27_SameWithoutNetworkFailure ==
    \A i \in Items :
        /\ (~envFault[i] /\ fetchLog[i].netFails = 0) => C27_Agrees(i)
        /\ fetchLog[i].netFails > 0 =>
               /\ noRetry[i].pc = "failed"
               /\ noRetry[i].events = << Progress("downloading"), Progress("failed") >>

\* Reached: the first item has completed at its first fetch, in both
\* variants; the second has completed after a network failure, which the
\* variant without retry has answered with a failed result.
C27_Witness ==
    /\ NoFault
    /\ Len(songs) = 2
    /\ job[1].pc = "completed"
    /\ fetchLog[1].calls = 1
    /\ noRetry[1].success
    /\ Len(noRetry[1].events) = 3
    /\ job[2].pc = "completed"
    /\ fetchLog[2].netFails = 1
    /\ noRetry[2].pc = "failed"

\* C28: if every timer fires, every conversion ends and the probe, awaited
\* again and again, resolves true in the end, a running batch does not run
\* forever: downloadSongs returns, or, where an fs call or a callback has
\* thrown, it rejects or the process ends.
C28_Ended ==
    \/ batch = "returned"
    \/ batch \in { "rejected", "crashed" } /\ ~NoFault

C28_BatchTerminates == [](batch = "running" => <> C28_Ended)

\* Reached: a batch of two at concurrency 1 has returned without a fault,
\* the first job after its four fetches, the second after one retry.
C28_Witness ==
    /\ batch = "returned"
    /\ NoFault
    /\ concurrency = 1
    /\ Len(songs) = 2
    /\ fetchLog[1].calls = maxRetries
    /\ fetchLog[2].calls = 2

====
